---- MODULE Spec2Model ----
(***************************************************************************)
(* A model of ModalElement (src/js/ModalElement.js): one dialog overlay,   *)
(* its callback registry, the listeners attached to its root element, the  *)
(* inline styles the class writes, the two button labels and the focus.    *)
(*                                                                         *)
(* JavaScript runs every handler to completion, so each public operation   *)
(* and each click is one action.  The operations are operators on a        *)
(* machine record m; they call each other exactly as the methods do, and   *)
(* a registered action may call back into the dialog (start() or end()).   *)
(* An operator returns [m, exc]: the machine after the call and the        *)
(* exception the call ended with ("none" when it returned normally).       *)
(***************************************************************************)
EXTENDS Integers, Sequences, FiniteSets, TLC

\* ------------------------------------------------------------------ bounds
\* start() and top-level registerActions() calls a behaviour may make.
MaxRegs == 3
\* Longest list of plain actions passed as one callback group.
MaxActions == 2

\* --------------------------------------------------------------- constants
\* The four event types created by the constructor.
onStart == "modalStart"
onEnd == "modalEnd"
onConfirm == "modalConfirm"
onDecline == "modalDecline"
EventTypes == {onStart, onConfirm, onDecline, onEnd}

DEFAULT_CONFIRM_TEXT == "Ok"
DEFAULT_DECLINE_TEXT == "Decline"

\* The message of the Error thrown by start().
AlreadyActive == "Can't start new modal before previous ends."
\* What EventTarget.dispatchEvent throws for an event that is being dispatched.
InvalidStateError == "InvalidStateError"
NoExc == "none"

\* Inline style.display of an element: set to "block", or removed.
Block == "block"
Removed == ""

\* Elements that can hold the focus: two page elements and the content panel.
PageElements == {"a", "b"}
Content == "md-content"
NoTarget == "null"

\* ------------------------------------------------------------------ values
\* A JavaScript value given to a text setter.
JsNull == [type |-> "null", val |-> ""]
JsUndefined == [type |-> "undefined", val |-> ""]
JsString(s) == [type |-> "string", val |-> s]
TextInputs == {JsNull, JsUndefined, JsString(""), JsString("Yes")}

\* JavaScript truthiness of such a value.
Truthy(v) == v.type = "string" /\ v.val # ""

\* A callback group argument: undefined, or an array of actions.  An action
\* is given by what it does: "none" (touches nothing of the dialog),
\* "end" (calls end()), "start" (calls start() for a further dialog),
\* "restart" (calls end() and then start() for a further dialog).
Undefined == [given |-> FALSE, ops |-> <<>>]
Array(ops) == [given |-> TRUE, ops |-> ops]

PlainOps(n) == [i \in 1..n |-> "none"]
PlainGroups == {Undefined, Array(PlainOps(MaxActions))}
ReentrantGroups ==
    PlainGroups \cup {Array(<<"end", "none">>), Array(<<"start", "none">>)}

\* The actions of a group, named by the call they were passed to (reg), the
\* kind they were passed as and their place in the array.
Actions(reg, kind, g) ==
    [i \in 1..Len(g.ops) |-> [reg |-> reg, kind |-> kind, idx |-> i, op |-> g.ops[i]]]

\* The array object passed as a callback group; id stands for its identity
\* (and for the identity of the listener closure made over it).
ArgArray(reg, kind, g) ==
    [given |-> g.given, id |-> <<reg, kind>>, acts |-> Actions(reg, kind, g)]

\* The one-element array start() builds for its internal cleanup action.
CleanupArray(reg) ==
    [given |-> TRUE, id |-> <<reg, "cleanup">>,
     acts |-> <<[reg |-> reg, kind |-> "cleanup", idx |-> 1, op |-> "cleanup"]>>]

\* What a "start" action passes to start(): a further dialog with plain
\* confirm and end actions.
NestedTitle == "N"
NestedDescription == "ND"
NestedOnEnd == Array(<<"none">>)
NestedOnConfirm == Array(<<"none">>)
NestedOnDecline == Undefined
NestedOnStart == Undefined

\* What a "restart" action passes to start() after it has called end(): a
\* further dialog with plain confirm, decline and end actions.
RestartTitle == "R"
RestartDescription == "RD"
RestartOnEnd == Array(<<"none">>)
RestartOnConfirm == Array(<<"none">>)
RestartOnDecline == Array(<<"none">>)
RestartOnStart == Undefined

\* ------------------------------------------------------------------- state
VARIABLES
    isActive,             \* #isActive
    registeredListeners,  \* #registeredListeners: sequence of [type, listener]
    listeners,            \* the event listener list of #modal, in order added
    preModalFocusTarget,  \* #preModalFocusTarget
    modalDisplay,         \* #modal.style.display
    confirmDisplay,       \* md-confirm .style.display
    declineDisplay,       \* md-decline .style.display
    confirmInnerText,     \* md-confirm .innerText
    declineInnerText,     \* md-decline .innerText
    title,                \* md-title .innerHTML
    description,          \* md-description .innerHTML
    activeElement,        \* document.activeElement
    nextReg,              \* number of the next start / registerActions call
    log,                  \* actions invoked by the last operation, in order
    returns,              \* start / end calls ended by the last operation
    fired,                \* invokeEvent calls ended by the last operation
    last,                 \* the last operation and how it ended
    cur,                  \* the invocation opened by the last successful start
    ended                 \* invocations whose end has completed

vars == <<isActive, registeredListeners, listeners, preModalFocusTarget,
          modalDisplay, confirmDisplay, declineDisplay, confirmInnerText,
          declineInnerText, title, description, activeElement, nextReg,
          log, returns, fired, last, cur, ended>>

\* The machine the operations run on: the object's fields and the DOM it
\* owns, plus what exists only while a handler runs (the dispatch flags of
\* the four event objects, the call stack) and the record of what happened.
Machine ==
    [isActive |-> isActive, registeredListeners |-> registeredListeners,
     listeners |-> listeners, preModalFocusTarget |-> preModalFocusTarget,
     modalDisplay |-> modalDisplay, confirmDisplay |-> confirmDisplay,
     declineDisplay |-> declineDisplay, confirmInnerText |-> confirmInnerText,
     declineInnerText |-> declineInnerText, title |-> title,
     description |-> description, activeElement |-> activeElement,
     nextReg |-> nextReg, dispatching |-> {}, stack |-> <<>>,
     log |-> <<>>, returns |-> <<>>, fired |-> <<>>]

Ok(m) == [m |-> m, exc |-> NoExc]
Throw(m, e) == [m |-> m, exc |-> e]

\* ------------------------------------------------------------- evaluation
\* The one element of a one-element set.  Only({e : x \in {v}}) is e with x
\* standing for the value of v, which is computed once however often e
\* uses x: the steps of a method are chained this way.
Only(S) == CHOOSE x \in S : TRUE

\* --------------------------------------------------------- DOM primitives
\* EventTarget.addEventListener / removeEventListener on #modal.
addEventListener(m, type, listener) ==
    [m EXCEPT !.listeners = Append(@, [type |-> type, listener |-> listener])]

removeEventListener(m, type, listener) ==
    [m EXCEPT !.listeners =
        SelectSeq(@, LAMBDA l : ~(l.type = type /\ l.listener.id = listener.id))]

\* HTMLElement.focus(): the content panel takes the focus only while the
\* overlay is displayed; a page element always does.
focus(m, element) ==
    [m EXCEPT !.activeElement =
        IF element = Content /\ m.modalDisplay # Block THEN @ ELSE element]

\* Array.prototype.splice(i, 1).
Splice(seq, i) == SubSeq(seq, 1, i - 1) \o SubSeq(seq, i + 1, Len(seq))

\* -------------------------------------------------------------- call record
\* Entering and leaving a method: the call stack, and one entry of
\* m.returns per call that ends, with what the call found and left.
Call(m, fn) == [m EXCEPT !.stack = Append(@, fn)]

\* The call left everything of the dialog as it found it, and invoked no
\* action.
Untouched(m0, m1) ==
    /\ m1.title = m0.title
    /\ m1.description = m0.description
    /\ m1.registeredListeners = m0.registeredListeners
    /\ m1.listeners = m0.listeners
    /\ m1.confirmDisplay = m0.confirmDisplay
    /\ m1.declineDisplay = m0.declineDisplay
    /\ m1.modalDisplay = m0.modalDisplay
    /\ m1.preModalFocusTarget = m0.preModalFocusTarget
    /\ m1.activeElement = m0.activeElement
    /\ m1.isActive = m0.isActive
    /\ m1.log = m0.log

Return(m0, fn, r) ==
    [m |-> [r.m EXCEPT
               !.stack = m0.stack,
               !.returns = Append(@,
                   [fn |-> fn, exc |-> r.exc,
                    wasActive |-> m0.isActive, isActive |-> r.m.isActive,
                    callers |-> m0.stack,
                    regChanged |->
                        r.m.registeredListeners # m0.registeredListeners,
                    unchanged |-> Untouched(m0, r.m)])],
     exc |-> r.exc]

\* An invokeEvent call that ends adds one entry to m.fired: m0 is the machine
\* the call found, d what the dispatch left and m1 the machine the call
\* leaves.  The entry tells how the call ended, whether an entry of the
\* type is left in the registry, whether the entries of the other types
\* are as the call found them, whether the dispatch ran no start() or end()
\* call, and whether an entry of the type was registered during the dispatch.
Fired(m0, type, d, m1) ==
    [m |-> [m1 EXCEPT !.fired = Append(@,
               [type |-> type, exc |-> d.exc,
                isActive |-> m1.isActive,
                left |-> \E i \in 1..Len(m1.registeredListeners) :
                            m1.registeredListeners[i].type = type,
                others |-> SelectSeq(m1.registeredListeners, LAMBDA e : e.type # type)
                           = SelectSeq(m0.registeredListeners, LAMBDA e : e.type # type),
                quiet |-> Len(d.m.returns) = Len(m0.returns),
                during |-> \E i \in 1..Len(d.m.registeredListeners) :
                              /\ d.m.registeredListeners[i].type = type
                              /\ \A k \in 1..Len(m0.registeredListeners) :
                                    m0.registeredListeners[k].listener.id
                                        # d.m.registeredListeners[i].listener.id])],
     exc |-> d.exc]

\* ------------------------------------------------------------- the methods
RECURSIVE start(_, _, _, _, _, _, _), end(_), invokeEvent(_, _, _),
          dispatchEvent(_, _, _), InvokeListeners(_, _, _),
          forEachAction(_, _, _), forEachActionReversed(_, _, _),
          CallAction(_, _), RemoveRegistered(_, _, _)

\* registerActions(eventIdentifier, actions), lines 310-327.
registerActions(m, eventIdentifier, actions) ==
    IF ~actions.given
    THEN m
    ELSE addEventListener(
             [m EXCEPT !.registeredListeners =
                 Append(@, [type |-> eventIdentifier,
                            listener |-> [id |-> actions.id,
                                          actions |-> actions.acts]])],
             eventIdentifier, [id |-> actions.id, actions |-> actions.acts])

\* The cleanup action of lines 257-262: every registered listener is
\* detached, and the registry is emptied.
RECURSIVE RemoveAll(_, _, _)
RemoveAll(m, regs, i) ==
    IF i > Len(regs)
    THEN m
    ELSE RemoveAll(removeEventListener(m, regs[i].type, regs[i].listener), regs, i + 1)

\* (a cleanup that empties the registry and detaches nothing)
CleanupRegistryOnly(m) == [m EXCEPT !.registeredListeners = <<>>]

Cleanup(m) ==
    Only({[RemoveAll(m1, m1.registeredListeners, 1) EXCEPT !.registeredListeners = <<>>]
          : m1 \in {m}})

\* One action of a callback group is called: it is logged with what it
\* can observe, and then does what its kind of action does.
CallAction(m, a) ==
    Only({CASE a.op = "none" -> Ok(m1)
            [] a.op = "cleanup" -> Ok(Cleanup(m1))
            [] a.op = "end" -> end(m1)
            [] a.op = "start" ->
                  start(m1, NestedTitle, NestedDescription, NestedOnEnd,
                        NestedOnConfirm, NestedOnDecline, NestedOnStart)
            [] a.op = "restart" ->
                  Only({IF r.exc # NoExc
                        THEN r
                        ELSE start(r.m, RestartTitle, RestartDescription,
                                   RestartOnEnd, RestartOnConfirm,
                                   RestartOnDecline, RestartOnStart)
                        : r \in {end(m1)}})
          : m1 \in {[m EXCEPT !.log = Append(@,
                        [reg |-> a.reg, kind |-> a.kind, idx |-> a.idx, op |-> a.op,
                         isActive |-> m.isActive,
                         modalDisplay |-> m.modalDisplay,
                         activeElement |-> m.activeElement,
                         preModalFocusTarget |-> m.preModalFocusTarget,
                         ids |-> {m.registeredListeners[i].listener.id :
                                    i \in 1..Len(m.registeredListeners)}])]}})

\* actions.forEach(action => action()), line 318: an exception ends the loop.
\* (the same loop from the last action to the first)
forEachActionReversed(m, actions, i) ==
    IF i > Len(actions)
    THEN Ok(m)
    ELSE Only({IF r.exc # NoExc THEN r ELSE forEachActionReversed(r.m, actions, i + 1)
               : r \in {CallAction(m, actions[Len(actions) + 1 - i])}})

forEachAction(m, actions, i) ==
    IF i > Len(actions)
    THEN Ok(m)
    ELSE Only({IF r.exc # NoExc THEN r ELSE forEachAction(r.m, actions, i + 1)
               : r \in {CallAction(m, actions[i])}})

\* The listeners found on #modal when the dispatch began are invoked in the
\* order they were added; one removed meanwhile is skipped, and what a
\* listener throws is reported, not propagated.
InvokeListeners(m, found, i) ==
    IF i > Len(found)
    THEN m
    ELSE IF \E k \in 1..Len(m.listeners) : m.listeners[k] = found[i]
         THEN Only({InvokeListeners(r.m, found, i + 1)
                    : r \in {forEachAction(m, found[i].listener.actions, 1)}})
         ELSE InvokeListeners(m, found, i + 1)

\* #modal.dispatchEvent(event), line 335.  own tells whether the event is
\* one of the object's four event objects, which are dispatched again and
\* again, or a fresh event made by the caller of invokeEvent.
dispatchEvent(m, type, own) ==
    IF own /\ type \in m.dispatching
    THEN Throw(m, InvalidStateError)
    ELSE Only({Ok([m2 EXCEPT !.dispatching = m.dispatching])
               : m2 \in {InvokeListeners(
                            [m EXCEPT !.dispatching =
                                IF own THEN @ \cup {type} ELSE @],
                            SelectSeq(m.listeners, LAMBDA l : l.type = type),
                            1)}})

\* The loop of lines 338-345, from the last registry entry to the first.
\* (a loop that takes the entries out of the registry and detaches nothing)
RemoveRegisteredSpliceOnly(m, type, i) ==
    [m EXCEPT !.registeredListeners = SelectSeq(@, LAMBDA e : e.type # type)]

\* (a loop that looks at the last entry only)
RemoveRegisteredLastOnly(m, type, i) ==
    IF i >= 1 /\ m.registeredListeners[i].type = type
    THEN removeEventListener(
             [m EXCEPT !.registeredListeners = Splice(@, i)],
             m.registeredListeners[i].type, m.registeredListeners[i].listener)
    ELSE m

RemoveRegistered(m, type, i) ==
    IF i < 1
    THEN m
    ELSE IF m.registeredListeners[i].type = type
         THEN Only({RemoveRegistered(m1, type, i - 1)
                    : m1 \in {removeEventListener(
                                 [m EXCEPT !.registeredListeners = Splice(@, i)],
                                 m.registeredListeners[i].type,
                                 m.registeredListeners[i].listener)}})
         ELSE RemoveRegistered(m, type, i - 1)

\* invokeEvent(event), lines 333-347.
invokeEvent(m, type, own) ==
    Only({Only({Fired(m0, type, d, m1)
                : m1 \in {IF d.exc # NoExc
                          THEN d.m
                          ELSE RemoveRegistered(d.m, type, Len(d.m.registeredListeners))}})
          : m0 \in {m}, d \in {dispatchEvent(m, type, own)}})

\* Lines 265-274 of start(): each button is displayed when its actions were
\* passed, and its inline display is removed when they were not.
\* (a set-up that never removes the display)
setUpButtonsKeepShown(m, onConfirmActions, onDeclineActions) ==
    [m EXCEPT
        !.confirmDisplay = IF onConfirmActions.given THEN Block ELSE @,
        !.declineDisplay = IF onDeclineActions.given THEN Block ELSE @]

\* (a set-up that also puts the default labels back)
setUpButtonsResetText(m, onConfirmActions, onDeclineActions) ==
    [m EXCEPT
        !.confirmDisplay = IF onConfirmActions.given THEN Block ELSE Removed,
        !.declineDisplay = IF onDeclineActions.given THEN Block ELSE Removed,
        !.confirmInnerText = DEFAULT_CONFIRM_TEXT,
        !.declineInnerText = DEFAULT_DECLINE_TEXT]

setUpButtons(m, onConfirmActions, onDeclineActions) ==
    [m EXCEPT
        !.confirmDisplay = IF onConfirmActions.given THEN Block ELSE Removed,
        !.declineDisplay = IF onDeclineActions.given THEN Block ELSE Removed]

\* Lines 279-281 of start(): the focused element is recorded, then the
\* content panel is focused.
\* (the two statements in the other order)
focusModalThenRecord(m) ==
    Only({[m1 EXCEPT !.preModalFocusTarget = m1.activeElement]
          : m1 \in {focus(m, Content)}})

focusModal(m) ==
    focus([m EXCEPT !.preModalFocusTarget = m.activeElement], Content)

\* Lines 239-263 of start(): the texts and the five registrations.
startRegister(m, t, d, onEndActions, onConfirmActions, onDeclineActions, onStartActions) ==
    LET reg == m.nextReg
    IN  registerActions(
         registerActions(
          registerActions(
           registerActions(
            registerActions(
             [m EXCEPT !.nextReg = reg + 1, !.title = t, !.description = d],
             onStart, ArgArray(reg, onStart, onStartActions)),
            onConfirm, ArgArray(reg, onConfirm, onConfirmActions)),
           onDecline, ArgArray(reg, onDecline, onDeclineActions)),
          onEnd, ArgArray(reg, onEnd, onEndActions)),
         onEnd, CleanupArray(reg))

\* Lines 239-281 of start(): the registrations, the buttons, the overlay
\* and the focus.
\* (a set-up that focuses the content panel before the overlay is displayed)
startSetUpFocusFirst(m, t, d, onEndActions, onConfirmActions, onDeclineActions, onStartActions) ==
    Only({[focusModal(m2) EXCEPT !.modalDisplay = Block]
          : m2 \in {setUpButtons(m1, onConfirmActions, onDeclineActions)
                    : m1 \in {startRegister(m, t, d, onEndActions, onConfirmActions,
                                            onDeclineActions, onStartActions)}}})

startSetUp(m, t, d, onEndActions, onConfirmActions, onDeclineActions, onStartActions) ==
    Only({focusModal([m2 EXCEPT !.modalDisplay = Block])
          : m2 \in {setUpButtons(m1, onConfirmActions, onDeclineActions)
                    : m1 \in {startRegister(m, t, d, onEndActions, onConfirmActions,
                                            onDeclineActions, onStartActions)}}})

\* Lines 283-286 of start(): the start event is fired, and then the dialog
\* is marked active.
\* (the dialog marked active before the start event is fired)
startInvokeActiveFirst(m) ==
    invokeEvent([m EXCEPT !.isActive = TRUE], onStart, TRUE)

startInvoke(m) ==
    Only({IF r.exc # NoExc
          THEN r
          ELSE Ok([r.m EXCEPT !.isActive = TRUE])
          : r \in {invokeEvent(m, onStart, TRUE)}})

\* The body of start(), lines 236-286, on a machine that has entered it.
\* (a start without the guard of lines 236-237)
startBodyUnguarded(m, t, d, onEndActions, onConfirmActions, onDeclineActions, onStartActions) ==
    Only({startInvoke(m1)
          : m1 \in {startSetUp(m, t, d, onEndActions, onConfirmActions,
                               onDeclineActions, onStartActions)}})

\* (a start that writes the title before it looks at the guard)
startBodyTitleFirst(m, t, d, onEndActions, onConfirmActions, onDeclineActions, onStartActions) ==
    IF m.isActive
    THEN Throw([m EXCEPT !.title = t], AlreadyActive)
    ELSE Only({startInvoke(m1)
               : m1 \in {startSetUp(m, t, d, onEndActions, onConfirmActions,
                                    onDeclineActions, onStartActions)}})

startBody(m, t, d, onEndActions, onConfirmActions, onDeclineActions, onStartActions) ==
    IF m.isActive
    THEN Throw(m, AlreadyActive)
    ELSE Only({startInvoke(m1)
               : m1 \in {startSetUp(m, t, d, onEndActions, onConfirmActions,
                                    onDeclineActions, onStartActions)}})

start(m, t, d, onEndActions, onConfirmActions, onDeclineActions, onStartActions) ==
    Only({Return(m, "start", r)
          : r \in {startBody(Call(m, "start"), t, d, onEndActions,
                             onConfirmActions, onDeclineActions, onStartActions)}})

\* Lines 293-298 of end(): the overlay is hidden, the recorded element is
\* focused if there is one, and the record is cleared.
endRestore(m) ==
    [(IF m.preModalFocusTarget = NoTarget
      THEN [m EXCEPT !.modalDisplay = Removed]
      ELSE focus([m EXCEPT !.modalDisplay = Removed], m.preModalFocusTarget))
     EXCEPT !.preModalFocusTarget = NoTarget]

\* The body of end(), lines 293-303.
\* (an end that marks the dialog inactive before it fires the end event)
endBodyInactiveFirst(m) ==
    Only({r : r \in {invokeEvent([m1 EXCEPT !.isActive = FALSE], onEnd, TRUE)
                     : m1 \in {endRestore(m)}}})

endBody(m) ==
    Only({IF r.exc # NoExc
          THEN r
          ELSE Ok([r.m EXCEPT !.isActive = FALSE])
          : r \in {invokeEvent(m1, onEnd, TRUE) : m1 \in {endRestore(m)}}})

end(m) ==
    Only({Return(m, "end", r) : r \in {endBody(Call(m, "end"))}})

\* The setters of lines 44-61.
confirmText(m, newText) ==
    IF Truthy(newText)
    THEN [m EXCEPT !.confirmInnerText = newText.val]
    ELSE [m EXCEPT !.confirmInnerText = DEFAULT_CONFIRM_TEXT]

declineText(m, newText) ==
    IF Truthy(newText)
    THEN [m EXCEPT !.declineInnerText = newText.val]
    ELSE [m EXCEPT !.declineInnerText = DEFAULT_DECLINE_TEXT]

\* The click listeners #buildModal adds: the overlay and the close button
\* call end(); confirm and decline fire their event and then call end().
closeClick(m) == end(m)

overlayClick(m) == end(m)

\* (a confirm listener that calls end() before it fires the event)
confirmClickEndFirst(m) ==
    Only({IF r.exc # NoExc THEN r ELSE invokeEvent(r.m, onConfirm, TRUE)
          : r \in {end(m)}})

confirmClick(m) ==
    Only({IF r.exc # NoExc THEN r ELSE end(r.m)
          : r \in {invokeEvent(m, onConfirm, TRUE)}})

declineClick(m) ==
    Only({IF r.exc # NoExc THEN r ELSE end(r.m)
          : r \in {invokeEvent(m, onDecline, TRUE)}})

\* ----------------------------------------------------------------- actions
NoArgs == [onEnd |-> Undefined, onConfirm |-> Undefined,
           onDecline |-> Undefined, onStart |-> Undefined]

\* The record of an operation: which, with what, and how it ended.
Op(name, args, type, text, exc) ==
    [op |-> name, args |-> args, type |-> type, text |-> text, exc |-> exc]

NoInvocation ==
    [reg |-> 0, args |-> NoArgs, focusAtStart |-> NoTarget,
     focusMoved |-> FALSE, open |-> FALSE]

\* The machine a handler leaves becomes the next state.
Commit(m) ==
    /\ isActive' = m.isActive
    /\ registeredListeners' = m.registeredListeners
    /\ listeners' = m.listeners
    /\ preModalFocusTarget' = m.preModalFocusTarget
    /\ modalDisplay' = m.modalDisplay
    /\ confirmDisplay' = m.confirmDisplay
    /\ declineDisplay' = m.declineDisplay
    /\ confirmInnerText' = m.confirmInnerText
    /\ declineInnerText' = m.declineInnerText
    /\ title' = m.title
    /\ description' = m.description
    /\ activeElement' = m.activeElement
    /\ nextReg' = m.nextReg
    /\ log' = m.log
    /\ returns' = m.returns
    /\ fired' = m.fired

Init ==
    /\ isActive = FALSE
    /\ registeredListeners = <<>>
    /\ listeners = <<>>
    /\ preModalFocusTarget = NoTarget
    /\ modalDisplay = Removed
    /\ confirmDisplay = Removed
    /\ declineDisplay = Removed
    /\ confirmInnerText = DEFAULT_CONFIRM_TEXT
    /\ declineInnerText = DEFAULT_DECLINE_TEXT
    /\ title = ""
    /\ description = ""
    /\ activeElement = "a"
    /\ nextReg = 1
    /\ log = <<>>
    /\ returns = <<>>
    /\ fired = <<>>
    /\ last = [op |-> "new", args |-> NoArgs, type |-> "", text |-> JsUndefined,
               exc |-> NoExc]
    /\ cur = NoInvocation
    /\ ended = {}

\* The argument lists of start() whose callback groups are drawn from Groups.
StartArgs(Groups) ==
    [onEnd : Groups, onConfirm : Groups, onDecline : Groups, onStart : Groups]

\* A call of start("T", "D", onEnd, onConfirm, onDecline, onStart) with the
\* callback groups of one of Args.
Start(Args) ==
    /\ nextReg <= MaxRegs
    /\ \E args \in Args :
          \E r \in {start(Machine, "T", "D", args.onEnd, args.onConfirm,
                          args.onDecline, args.onStart)} :
              /\ Commit(r.m)
              /\ last' = Op("start", args, "", JsUndefined, r.exc)
              /\ cur' = IF r.exc = NoExc
                        THEN [reg |-> nextReg, args |-> args,
                              focusAtStart |-> activeElement,
                              focusMoved |-> FALSE, open |-> TRUE]
                        ELSE cur
              /\ ended' = ended

\* What the four ways of ending share: the handler has run and left r, and
\* the open invocation, if any, has ended when it returned normally.
Ends(name, r) ==
    /\ Commit(r.m)
    /\ last' = Op(name, NoArgs, "", JsUndefined, r.exc)
    /\ cur' = IF cur.open /\ r.exc = NoExc THEN NoInvocation ELSE cur
    /\ ended' = IF cur.open /\ r.exc = NoExc THEN ended \cup {cur.reg} ELSE ended

End == \E r \in {end(Machine)} : Ends("end", r)

\* A click reaches a button or the overlay only while it is displayed.
ClickClose ==
    /\ modalDisplay = Block
    /\ \E r \in {closeClick(Machine)} : Ends("close", r)

ClickOverlay ==
    /\ modalDisplay = Block
    /\ \E r \in {overlayClick(Machine)} : Ends("overlay", r)

ClickConfirm ==
    /\ modalDisplay = Block
    /\ confirmDisplay = Block
    /\ \E r \in {confirmClick(Machine)} : Ends("confirm", r)

ClickDecline ==
    /\ modalDisplay = Block
    /\ declineDisplay = Block
    /\ \E r \in {declineClick(Machine)} : Ends("decline", r)

\* A call of registerActions(type, actions) from outside.
RegisterActions(Groups) ==
    /\ nextReg <= MaxRegs
    /\ \E type \in EventTypes, g \in Groups :
          \E m \in {registerActions(Machine, type, ArgArray(nextReg, type, g))} :
              /\ Commit([m EXCEPT !.nextReg = IF g.given THEN nextReg + 1 ELSE nextReg])
              /\ last' = Op("registerActions", [NoArgs EXCEPT !.onEnd = g], type,
                            JsUndefined, NoExc)
              /\ UNCHANGED <<cur, ended>>

\* A call of invokeEvent(new CustomEvent(type)) from outside.
InvokeEvent ==
    \E type \in EventTypes :
        \E r \in {invokeEvent(Machine, type, FALSE)} :
            /\ Commit(r.m)
            /\ last' = Op("invokeEvent", NoArgs, type, JsUndefined, r.exc)
            /\ UNCHANGED <<cur, ended>>

SetConfirmText ==
    \E v \in TextInputs :
        \E m \in {confirmText(Machine, v)} :
            /\ Commit(m)
            /\ last' = Op("confirmText", NoArgs, "", v, NoExc)
            /\ UNCHANGED <<cur, ended>>

SetDeclineText ==
    \E v \in TextInputs :
        \E m \in {declineText(Machine, v)} :
            /\ Commit(m)
            /\ last' = Op("declineText", NoArgs, "", v, NoExc)
            /\ UNCHANGED <<cur, ended>>

\* The user moves the focus to another element of the page.
MoveFocus ==
    \E element \in PageElements \ {activeElement} :
        \E m \in {[Machine EXCEPT !.activeElement = element]} :
            /\ Commit(m)
            /\ last' = Op("focus", NoArgs, "", JsUndefined, NoExc)
            /\ cur' = IF cur.open THEN [cur EXCEPT !.focusMoved = TRUE] ELSE cur
            /\ ended' = ended

\* The dialog and its callbacks: every way of starting, ending, registering
\* and firing, with actions that do not call back into the dialog.
Next ==
    \/ Start(StartArgs(PlainGroups))
    \/ End
    \/ ClickClose
    \/ ClickOverlay
    \/ ClickConfirm
    \/ ClickDecline
    \/ RegisterActions(PlainGroups)
    \/ InvokeEvent

Spec == Init /\ [][Next]_vars

\* The same, with actions that may call start() or end(): every group is
\* passed, and at most one of the four holds an action that calls back.
Kinds == {"onEnd", "onConfirm", "onDecline", "onStart"}
AllPlain == [k \in Kinds |-> Array(PlainOps(MaxActions))]
ReentrantArgs ==
    {AllPlain} \cup {[AllPlain EXCEPT ![k] = g] :
                        k \in Kinds, g \in ReentrantGroups \ PlainGroups}

NextReentrant ==
    \/ Start(ReentrantArgs)
    \/ End
    \/ ClickClose
    \/ ClickOverlay
    \/ ClickConfirm
    \/ ClickDecline
    \/ RegisterActions({Array(<<"start", "none">>)})
    \/ InvokeEvent

SpecReentrant == Init /\ [][NextReentrant]_vars

\* The dialog with a confirm or decline action that ends the invocation and
\* starts the next one, while the user moves the focus about the page.
RestartArgs ==
    {AllPlain} \cup {[AllPlain EXCEPT ![k] = Array(<<"restart", "none">>)] :
                        k \in {"onConfirm", "onDecline"}}

NextRestart ==
    \/ Start(RestartArgs)
    \/ End
    \/ ClickClose
    \/ ClickOverlay
    \/ ClickConfirm
    \/ ClickDecline
    \/ MoveFocus

SpecRestart == Init /\ [][NextRestart]_vars

\* The dialog and the focus: the user moves the focus about the page while
\* dialogs open and close.
NextFocus ==
    \/ Start(StartArgs(PlainGroups))
    \/ End
    \/ ClickClose
    \/ ClickOverlay
    \/ ClickConfirm
    \/ ClickDecline
    \/ MoveFocus

SpecFocus == Init /\ [][NextFocus]_vars

\* The dialog and its button labels: the two setters among all the other
\* operations, with no callbacks or with callbacks of every kind.
TextArgs == {NoArgs} \cup StartArgs({Array(PlainOps(MaxActions))})

NextText ==
    \/ SetConfirmText
    \/ SetDeclineText
    \/ Start(TextArgs)
    \/ End
    \/ ClickClose
    \/ ClickOverlay
    \/ ClickConfirm
    \/ ClickDecline
    \/ RegisterActions(PlainGroups)
    \/ InvokeEvent

SpecText == Init /\ [][NextText]_vars

\* ------------------------------------------------------------------ claims
\* The start and end calls the last operation made, the outermost included.
StartCalls == {i \in 1..Len(returns) : returns[i].fn = "start"}
EndCalls == {i \in 1..Len(returns) : returns[i].fn = "end"}

\* C1: every call of start made while isActive is true, from outside or
\* from inside an action, fails with the "Can't start new modal before
\* previous ends." error.
C1_StartWhileActiveFails ==
    \A i \in StartCalls : returns[i].wasActive => returns[i].exc = AlreadyActive

\* A second start from outside, with no end since the first, has failed.
C1_Witness ==
    /\ last.op = "start"
    /\ last.exc = AlreadyActive
    /\ Len(returns) = 1
    /\ returns[1].wasActive /\ returns[1].callers = <<>>
    /\ isActive

\* C2: whatever the actions do, isActive is true when a start call returns
\* normally and false when an end call returns normally.
C2_ActiveAfterStartInactiveAfterEnd ==
    /\ \A i \in StartCalls : returns[i].exc = NoExc => returns[i].isActive
    /\ \A i \in EndCalls : returns[i].exc = NoExc => ~returns[i].isActive

\* A start whose onStart action called end(): the end returned inside the
\* start, and then the start returned.
C2_Witness ==
    /\ last.op = "start"
    /\ Len(returns) = 2
    /\ returns[1].fn = "end" /\ returns[1].callers = <<"start">>
    /\ returns[1].exc = NoExc /\ ~returns[1].isActive
    /\ returns[2].fn = "start" /\ returns[2].exc = NoExc /\ returns[2].isActive

\* C8: a start call made while another start call is running or while
\* isActive is true, which is within the time from a start call's beginning
\* to its matching end's completion, fails with the already-active error and
\* leaves the callback registry as it was.
C8_NoStartWhileInProgress ==
    \A i \in StartCalls :
        (returns[i].wasActive \/ "start" \in {returns[i].callers[k] :
                                                k \in 1..Len(returns[i].callers)})
            => /\ returns[i].exc = AlreadyActive
               /\ ~returns[i].regChanged

\* The actions of invocation reg among those an operation invoked, in the
\* order invoked, each named by its kind and its place in its group; the
\* internal cleanup action is not one of them.
InvokedOf(lg, reg) ==
    LET mine == SelectSeq(lg, LAMBDA e : e.reg = reg /\ e.kind # "cleanup")
    IN  [i \in 1..Len(mine) |-> <<mine[i].kind, mine[i].idx>>]

\* The actions of a group passed as kind, in registration order.
GroupOf(kind, g) == [i \in 1..Len(g.ops) |-> <<kind, i>>]

\* The group of that kind passed to the open invocation is still in the
\* registry: its event has not been fired since the start.
Registered(kind) ==
    \E i \in 1..Len(registeredListeners) :
        registeredListeners[i].listener.id = <<cur.reg, kind>>

EndOps == {"end", "close", "overlay"}

\* C3: a click on confirm, for an active invocation whose onConfirm and
\* onEnd groups are registered, invokes the onConfirm actions once each in
\* registration order, then the onEnd actions once each in registration
\* order, invokes no onDecline action, and leaves the dialog inactive; and
\* the same for a click on decline with the onDecline actions.
C3_ClickStep ==
    /\ (  /\ last'.op = "confirm"
          /\ isActive /\ cur.open
          /\ Registered(onConfirm)
          /\ cur.args.onEnd.given => Registered(onEnd))
       => /\ InvokedOf(log', cur.reg) =
                GroupOf(onConfirm, cur.args.onConfirm) \o GroupOf(onEnd, cur.args.onEnd)
          /\ ~isActive'
    /\ (  /\ last'.op = "decline"
          /\ isActive /\ cur.open
          /\ Registered(onDecline)
          /\ cur.args.onEnd.given => Registered(onEnd))
       => /\ InvokedOf(log', cur.reg) =
                GroupOf(onDecline, cur.args.onDecline) \o GroupOf(onEnd, cur.args.onEnd)
          /\ ~isActive'

C3_ConfirmInvokesConfirmThenEnd == [][C3_ClickStep]_vars

\* A confirm click has invoked an onConfirm group and then an onEnd group,
\* both of full length, and the cleanup action, of an invocation that had
\* onDecline actions too.
C3_Witness ==
    /\ last.op = "confirm"
    /\ ~isActive
    /\ declineDisplay = Block
    /\ Len(log) = 2 * MaxActions + 1
    /\ log[1].kind = onConfirm /\ log[MaxActions + 1].kind = onEnd

\* C4: once an invocation has ended, none of the actions passed to its
\* start is invoked by any later operation.
C4_NoActionAfterEnd ==
    [][\A i \in 1..Len(log') : log'[i].reg \notin ended]_vars

\* An invocation has ended, and a later operation has invoked the actions
\* of a later registration.
C4_Witness ==
    \E r \in ended : \E i \in 1..Len(log) : log[i].reg > r

\* C5: after a successful start the confirm button is displayed exactly
\* when onConfirm was passed to that call, and the decline button exactly
\* when onDecline was, whatever an earlier invocation displayed.
C5_ButtonsShownIffPassed ==
    (last.op = "start" /\ last.exc = NoExc)
        => /\ (confirmDisplay = Block) <=> last.args.onConfirm.given
           /\ (declineDisplay = Block) <=> last.args.onDecline.given

\* A later invocation passes onDecline and no onConfirm.
C5_Witness ==
    /\ last.op = "start" /\ last.exc = NoExc
    /\ ended # {}
    /\ ~last.args.onConfirm.given /\ confirmDisplay = Removed
    /\ last.args.onDecline.given /\ declineDisplay = Block

\* C6: when an active invocation whose onEnd group is registered is ended
\* by the close button, an overlay click or a call of end(), its onEnd
\* actions are invoked once each in registration order, and none of its
\* onConfirm or onDecline actions is.
C6_EndStep ==
    (  /\ last'.op \in EndOps
       /\ isActive /\ cur.open
       /\ cur.args.onEnd.given => Registered(onEnd))
    => InvokedOf(log', cur.reg) = GroupOf(onEnd, cur.args.onEnd)

C6_EndInvokesOnlyEndActions == [][C6_EndStep]_vars

\* An overlay click has ended an invocation that displayed both buttons;
\* its onEnd actions and the cleanup action are all that was invoked.
C6_Witness ==
    /\ last.op = "overlay"
    /\ confirmDisplay = Block /\ declineDisplay = Block
    /\ Len(log) = MaxActions + 1
    /\ log[1].kind = onEnd
    /\ returns[1].wasActive /\ ~isActive

\* C7: when the element focused at start is not displaced while the dialog
\* is open, it holds the focus again after the end; every end clears the
\* recorded target; and an end with no target recorded moves no focus.
C7_EndStep ==
    last'.op \in EndOps =>
        /\ (cur.open /\ ~cur.focusMoved) => activeElement' = cur.focusAtStart
        /\ preModalFocusTarget' = NoTarget
        /\ preModalFocusTarget = NoTarget => activeElement' = activeElement

C7_FocusRestored == [][C7_EndStep]_vars

\* The close button has ended an invocation that was started while "b"
\* held the focus, and "b" holds it again.
C7_Witness ==
    /\ last.op = "close"
    /\ returns[1].wasActive
    /\ activeElement = "b"
    /\ preModalFocusTarget = NoTarget

\* C9: the confirm label is changed by nothing but the confirmText setter,
\* and the decline label by nothing but the declineText setter.
C9_LabelsChangedOnlyBySetters ==
    [][/\ last'.op # "confirmText" => confirmInnerText' = confirmInnerText
       /\ last'.op # "declineText" => declineInnerText' = declineInnerText]_vars

\* A label set before is still in place after a later invocation's start.
C9_Witness ==
    /\ last.op = "start" /\ last.exc = NoExc
    /\ ended # {}
    /\ confirmInnerText = "Yes"
    /\ declineInnerText = "Yes"

\* C10: after confirmText is assigned v the confirm label is v, or "Ok"
\* when v is null or undefined; after declineText is assigned v the decline
\* label is v, or "Decline" when v is null or undefined.
Nullish(v) == v.type \in {"null", "undefined"}

C10_LabelIsValueUnlessNullish ==
    /\ last.op = "confirmText" =>
          confirmInnerText =
              IF Nullish(last.text) THEN DEFAULT_CONFIRM_TEXT ELSE last.text.val
    /\ last.op = "declineText" =>
          declineInnerText =
              IF Nullish(last.text) THEN DEFAULT_DECLINE_TEXT ELSE last.text.val

\* The operation fires an event of that type through invokeEvent: a call of
\* invokeEvent from outside, a click on the button of that type, or, for
\* the end type, any way of running end().
Fires(o, type) ==
    \/ o.op = "invokeEvent" /\ o.type = type
    \/ o.op = "confirm" /\ type \in {onConfirm, onEnd}
    \/ o.op = "decline" /\ type \in {onDecline, onEnd}
    \/ o.op \in EndOps /\ type = onEnd

\* C11: a group registered by registerActions(kind, actions) with actions
\* given, while an invocation is active or while none is, has its actions
\* invoked once each, in order, by the next operation when that operation
\* fires an event of that kind.
C11_FireStep ==
    (  /\ last.op = "registerActions"
       /\ last.args.onEnd.given
       /\ Fires(last', last.type))
    => InvokedOf(log', nextReg - 1) = GroupOf(last.type, last.args.onEnd)

C11_RegisteredGroupInvokedOnNextFire == [][C11_FireStep]_vars

\* C12: when an invokeEvent call returns, the registry holds no entry of
\* the event's type, entries registered during the dispatch included; and
\* when the type is start, confirm or decline and the dispatched actions
\* made no call of the dialog, the entries of the other types are as the
\* call found them.
C12_FiredKindRemoved ==
    \A i \in 1..Len(fired) :
        fired[i].exc = NoExc =>
            /\ ~fired[i].left
            /\ (fired[i].type # onEnd /\ fired[i].quiet) => fired[i].others

\* An invokeEvent call has returned after a dispatch during which an action
\* started a dialog, whose start registered an entry of the type fired.
C12_Witness ==
    \E i \in 1..Len(fired) :
        /\ fired[i].exc = NoExc
        /\ fired[i].during /\ ~fired[i].quiet
        /\ ~fired[i].left

\* C13: a start call that fails with the already-active error, made from
\* outside or by an action, leaves the title, the description, the
\* registry, the attached listeners, the display of the two buttons and of
\* the overlay, the recorded focus target, the focus and isActive as they
\* were, and invokes no action.
C13_FailedStartChangesNothing ==
    \A i \in StartCalls :
        returns[i].exc = AlreadyActive => returns[i].unchanged

\* A start call made by an action of an active invocation has failed, and
\* the title is still the one of that invocation.
C13_Witness ==
    /\ \E i \in StartCalls :
          /\ returns[i].exc = AlreadyActive
          /\ returns[i].callers # <<>>
          /\ returns[i].unchanged
    /\ title = "T"

\* The ids of the registry entries a start call numbered reg makes for the
\* groups args and for its cleanup action.
IdsOf(reg, args) ==
    {<<reg, "cleanup">>}
        \cup (IF args.onStart.given THEN {<<reg, onStart>>} ELSE {})
        \cup (IF args.onConfirm.given THEN {<<reg, onConfirm>>} ELSE {})
        \cup (IF args.onDecline.given THEN {<<reg, onDecline>>} ELSE {})
        \cup (IF args.onEnd.given THEN {<<reg, onEnd>>} ELSE {})

\* C14: in a start call that returns, the onStart actions passed to it are
\* invoked once each in registration order; each of them finds the groups
\* of the call and the cleanup action registered, the overlay displayed,
\* the element focused before the call recorded, the focus in the content
\* panel and isActive false; the invokeEvent call of the start event
\* returns with no start entry left and isActive still false; and when
\* start returns isActive is true and the registry holds no start entry.
C14_StartStep ==
    (last'.op = "start" /\ last'.exc = NoExc) =>
        /\ InvokedOf(log', nextReg) = GroupOf(onStart, last'.args.onStart)
        /\ \A i \in 1..Len(log') :
              log'[i].reg = nextReg =>
                  /\ IdsOf(nextReg, last'.args) \subseteq log'[i].ids
                  /\ log'[i].modalDisplay = Block
                  /\ log'[i].preModalFocusTarget = activeElement
                  /\ log'[i].activeElement = Content
                  /\ ~log'[i].isActive
        /\ Len(fired') = 1
        /\ fired'[1].type = onStart /\ ~fired'[1].left /\ ~fired'[1].isActive
        /\ isActive'
        /\ \A i \in 1..Len(registeredListeners') :
              registeredListeners'[i].type # onStart

C14_StartOrder == [][C14_StartStep]_vars

\* A start has returned that invoked its onStart actions after those of a
\* group registered on the start event before it, and left an active
\* dialog with a confirm and an end group registered.
C14_Witness ==
    /\ last.op = "start" /\ last.exc = NoExc
    /\ last.args.onStart.given /\ last.args.onConfirm.given
    /\ Len(log) = 2 * MaxActions
    /\ log[1].reg < log[Len(log)].reg
    /\ isActive
    /\ Registered(onConfirm) /\ Registered(onEnd)
    /\ ~Registered(onStart)

\* A sequence is the beginning of another.
IsPrefix(s, t) == Len(s) <= Len(t) /\ s = SubSeq(t, 1, Len(s))

\* The places in a log of the cleanup action of invocation reg.
CleanupsOf(lg, reg) ==
    {i \in 1..Len(lg) : lg[i].reg = reg /\ lg[i].kind = "cleanup"}

\* C15: when end() runs for an active invocation whose end entries are
\* registered, the onEnd actions passed to its start are invoked in
\* registration order, all of them when none of them throws; each finds
\* the overlay hidden, the focus restored, the recorded target cleared and
\* isActive true; the cleanup action runs once, after them, still with
\* isActive true; a start call made by an onEnd action fails with the
\* already-active error; and when end() returns the registry and the
\* listener list are empty and isActive is false.
C15_EndStep ==
    (  /\ last'.op \in EndOps
       /\ isActive /\ cur.open
       /\ Registered("cleanup")
       /\ cur.args.onEnd.given => Registered(onEnd))
    => /\ IsPrefix(InvokedOf(log', cur.reg), GroupOf(onEnd, cur.args.onEnd))
       /\ (\A k \in 1..Len(cur.args.onEnd.ops) : cur.args.onEnd.ops[k] = "none")
             => InvokedOf(log', cur.reg) = GroupOf(onEnd, cur.args.onEnd)
       /\ \A i \in 1..Len(log') :
             (log'[i].reg = cur.reg /\ log'[i].kind = onEnd) =>
                 /\ log'[i].modalDisplay = Removed
                 /\ log'[i].activeElement = preModalFocusTarget
                 /\ log'[i].preModalFocusTarget = NoTarget
                 /\ log'[i].isActive
                 /\ \A c \in CleanupsOf(log', cur.reg) : i < c
       /\ Cardinality(CleanupsOf(log', cur.reg)) = 1
       /\ \A c \in CleanupsOf(log', cur.reg) : log'[c].isActive
       /\ \A i \in 1..Len(returns') :
             (returns'[i].fn = "start" /\ returns'[i].callers = <<"end">>)
                 => returns'[i].exc = AlreadyActive
       /\ registeredListeners' = <<>>
       /\ listeners' = <<>>
       /\ ~isActive'

C15_EndOrder == [][C15_EndStep]_vars

\* An end() has run whose first onEnd action called start(), which failed
\* with the already-active error; the cleanup action ran after it, and the
\* dialog is inactive with an empty registry.
C15_Witness ==
    /\ last.op \in EndOps
    /\ Len(log) = 2
    /\ log[1].kind = onEnd /\ log[1].op = "start" /\ log[1].isActive
    /\ log[1].reg \in ended
    /\ log[2].kind = "cleanup"
    /\ \E i \in StartCalls :
          returns[i].callers = <<"end">> /\ returns[i].exc = AlreadyActive
    /\ ~isActive
    /\ registeredListeners = <<>>

\* C16: between operations, isActive is true exactly when the overlay is
\* displayed, whatever the callbacks do.
C16_ActiveIffVisible == isActive <=> (modalDisplay = Block)

\* The ids of the entries in the registry.
RegistryIds ==
    {registeredListeners[i].listener.id : i \in 1..Len(registeredListeners)}

\* C17: when an onConfirm or onDecline action of an active invocation has
\* called end() and then start(), and that start returned, then after the
\* click the new invocation is active, its overlay is displayed, its
\* confirm, decline and end entries are in the registry, and none of its
\* onEnd actions has been invoked.
C17_RestartedInvocationKept ==
    (  /\ last.op \in {"confirm", "decline"}
       /\ \E i \in 1..Len(log) :
             /\ log[i].op = "restart"
             /\ log[i].kind \in {onConfirm, onDecline}
             /\ log[i].isActive
       /\ \E j \in StartCalls : returns[j].exc = NoExc)
    => /\ isActive
       /\ modalDisplay = Block
       /\ {<<nextReg - 1, onConfirm>>, <<nextReg - 1, onDecline>>,
           <<nextReg - 1, onEnd>>} \subseteq RegistryIds
       /\ \A i \in 1..Len(log) :
             ~(log[i].reg = nextReg - 1 /\ log[i].kind = onEnd)

\* C18: between operations, the listeners attached to the root element for
\* the four event types are those of the registry entries: the same
\* listeners for the same types, each once.
C18_RegistryMatchesListeners ==
    /\ Len(listeners) = Len(registeredListeners)
    /\ {<<listeners[i].type, listeners[i].listener.id>> : i \in 1..Len(listeners)}
         = {<<registeredListeners[i].type, registeredListeners[i].listener.id>> :
              i \in 1..Len(registeredListeners)}
    /\ Cardinality(RegistryIds) = Len(registeredListeners)

\* A manual invokeEvent has fired the confirm event of an active
\* invocation: its confirm entry was removed, other entries remain, and the
\* two lists agree.
C18_Witness ==
    /\ last.op = "invokeEvent" /\ last.type = onConfirm
    /\ isActive
    /\ log # <<>>
    /\ Len(registeredListeners) >= 3
    /\ Len(listeners) = Len(registeredListeners)
    /\ \A i \in 1..Len(listeners) : listeners[i].type # onConfirm

\* C19: a call of end() that comes right after an operation that ran end(),
\* with the dialog inactive, invokes no action, raises no error, and leaves
\* isActive false, the overlay hidden, the registry empty and the focus,
\* like everything else of the dialog, as it was.
C19_EndStep ==
    (  /\ last.op \in EndOps \cup {"confirm", "decline"}
       /\ last.exc = NoExc
       /\ ~isActive
       /\ last'.op = "end")
    => /\ log' = <<>>
       /\ last'.exc = NoExc
       /\ ~isActive'
       /\ modalDisplay' = Removed
       /\ registeredListeners' = <<>>
       /\ activeElement' = activeElement
       /\ UNCHANGED <<listeners, preModalFocusTarget, confirmDisplay,
                      declineDisplay, confirmInnerText, declineInnerText,
                      title, description>>

C19_EndIdempotent == [][C19_EndStep]_vars

====
